---------------------------- MODULE Spec2Model ----------------------------
(***************************************************************************)
(* A model of fetch_narrative_watchlists.py: the sliding-window rate       *)
(* limiter, the request wrapper with its retry on HTTP 429, the three      *)
(* fetchers, the aggregation into categorized tickers and index strings,   *)
(* and the orchestrator that writes the watchlist files.                   *)
(*                                                                         *)
(* The program is sequential.  Its position is pc (the orchestrator) and   *)
(* rq (the request wrapper).  The server and the clock are the             *)
(* environment: every answer and every delay is chosen with \E.            *)
(* Time is counted in whole seconds of the monotonic clock.                *)
(***************************************************************************)
EXTENDS Integers, Sequences, FiniteSets, TLC

VARIABLES
    \* RateLimiter
    requests,       \* self.requests: the deque of recorded timestamps
    max_requests,   \* self.max_requests
    period,         \* self.period
    now,            \* the last reading of time.monotonic()
    recent,         \* history: the timestamps wait() appended that lie within
                    \* one period of the newest of them, in order
    nWaits,         \* history: the timestamps wait() appended so far
    lastSleep,      \* history: the sleeps of the last wait() call, in order
    \* safe_request
    rq,             \* position inside safe_request
    depth,          \* number of nested safe_request frames of the call
    req,            \* the url and params of the call
    resp,           \* what safe_request returned to its caller
    callLog,        \* history of the call: its GETs, those answered 429, those
                    \* that failed without an answer, the requests sent, the
                    \* seconds of backoff asked for, the 2xx answer
    nGets,          \* history: GETs issued in the whole run
    nThrottled,     \* history: 429 answers in the whole run
    httpError,      \* history: a non-429 HTTP error was raised
    \* the fetcher that is running
    \* (the two histories are those of the fetch that is running)
    fetchReqs,      \* history: the requests this fetch handed to safe_request
    fetchResps,     \* history: what safe_request returned to this fetch
    coins, has_more_data, page,     \* fetch_coins_by_category
    tickers, url, params,           \* fetch_tickers_for_exchange
    \* main
    pc,             \* position of the orchestrator
    category_limit, coin_limit_per_category, combined_watchlist,
    categories, category_coins, catIdx, exIdx,
    ticker_dict, categorized_tickers, tradingview_indexes,
    files,          \* the file system: path -> text of the file
    writes,         \* history: the paths written, in order
    fetched,        \* history: the calls of the three fetchers, in order
    \* parse_link_header called on its own
    link_entries,   \* history: the entries the header text was written from
    link_text,      \* the argument link_header: the text of a Link header
    links           \* the dict returned

limiterVars == <<requests, max_requests, period, now, recent, nWaits, lastSleep>>
requestVars == <<rq, depth, req, resp, callLog, nGets, nThrottled, httpError>>
fetchVars   == <<fetchReqs, fetchResps, coins, has_more_data, page,
                 tickers, url, params>>
argVars     == <<category_limit, coin_limit_per_category, combined_watchlist>>
dataVars    == <<categories, category_coins, catIdx, exIdx>>
outVars     == <<ticker_dict, categorized_tickers, tradingview_indexes,
                 files, writes>>
mainVars    == <<pc, argVars, dataVars, outVars>>
parseVars   == <<link_entries, link_text, links>>
vars        == <<limiterVars, requestVars, fetchVars, mainVars, parseVars, fetched>>

---------------------------------------------------------------------------
(* Bounds of the model *)

\* SpecLimiter: the largest max_requests and period tried, the number of
\* wait() calls of a run, the largest gap between two calls.
MaxRequestsTried == 2
MaxPeriodTried   == 2
MaxCalls         == 4
MaxGap           == 3
\* How late a sleep may end, and how late the second clock reading of wait()
\* may be (time.sleep sleeps at least the time asked).
Overs == {0, 1}

Min(a, b) == IF a < b THEN a ELSE b

---------------------------------------------------------------------------
(* RateLimiter *)

\* wait() without the loop of lines 28-29: the queue as it was.
PruneNone(q, current_time, p) == q

\* wait(), lines 28-29: drop from the left what is older than the period.
RECURSIVE Prune(_, _, _)
Prune(q, current_time, p) ==
    IF q # <<>> /\ Head(q) < current_time - p
    THEN Prune(Tail(q), current_time, p)
    ELSE q

\* wait(), line 30: whether the call sleeps.
MustSleep(q, maxreq) == Len(q) >= maxreq

\* wait(), line 31.
TimeToWait(q, current_time, p) == Head(q) + p - current_time

\* wait() as a whole.  d: how long after the last clock reading the call
\* arrives; o: how late the timestamp is read after the sleep (or after the
\* first reading, when the call does not sleep).
RateLimiterWait(d, o) ==
    LET current_time == now + d
        pruned       == Prune(requests, current_time, period)
        sleeps       == IF MustSleep(pruned, max_requests)
                        THEN <<TimeToWait(pruned, current_time, period)>>
                        ELSE <<>>
        stamp        == current_time + (IF sleeps = <<>> THEN 0 ELSE sleeps[1]) + o
    IN  /\ requests'  = Append(pruned, stamp)
        /\ recent'    = SelectSeq(Append(recent, stamp), LAMBDA t : t > stamp - period)
        /\ nWaits'    = nWaits + 1
        /\ lastSleep' = sleeps
        /\ now'       = stamp
        /\ UNCHANGED <<max_requests, period>>

---------------------------------------------------------------------------
(* Constants of the program *)

BASE_URL == "https://api.coingecko.com/api/v3"
PerPage == 250
BackoffSeconds == 10
IndexSize == 10
MainMaxRequests == 1
MainPeriod == 2
\* The frames the interpreter allows (sys.getrecursionlimit() as CPython
\* sets it).  Here only the frames of safe_request are counted; those of its
\* callers and of the library make the stack overflow sooner.
RecursionLimit == 1000

\* main(), lines 171-175.
exchanges == << [api_id |-> "binance", name |-> "Binance"],
                [api_id |-> "bybit_spot", name |-> "Bybit"] >>
target_coin == [id |-> "tether", symbol |-> "USDT"]

\* str.upper() on the exchange names of the program.
Upper(name) == CASE name = "Binance" -> "BINANCE"
                 [] name = "Bybit"   -> "BYBIT"

\* A URL as urlparse splits it: the part before "?" and the query, a
\* sequence of <<key, value>> pairs in the order written.
Url(path, query) == [path |-> path, query |-> query]

---------------------------------------------------------------------------
(* What the server may answer *)

CatAI   == [id |-> "ai", name |-> "AI"]
CatMeme == [id |-> "meme-token", name |-> "Meme/Dog"]

\* The bodies of the categories endpoint.
CategoryBodies == { <<>>, <<CatMeme, CatAI>> }

CoinIds == <<"bitcoin", "ethereum", "solana">>

\* A page of the markets endpoint: n coins, the coin ids taken in turn
\* starting at the s-th.
CoinPage(n, s) == [i \in 1..n |-> [id |-> CoinIds[((s + i - 1) % Len(CoinIds)) + 1]]]

PageLengths == {0, PerPage - 1, PerPage, PerPage + 1}
PageStarts  == {0}
CoinBodies  == { CoinPage(n, s) : n \in PageLengths, s \in PageStarts }

Ticker(c, b, t) == [coin_id |-> c, base |-> b, target |-> t]

\* The bodies of the tickers endpoint: a dict with the key "tickers".  The
\* page holds a coin twice and a ticker with another target.
TickerBodies ==
    { [name |-> "x",
       tickers |-> << Ticker("bitcoin", "BTC", "USDT"), Ticker("ethereum", "ETH", "USDT"),
                      Ticker("solana", "SOL", "USD"), Ticker("bitcoin", "WBTC", "USDT") >>] }

\* An entry of a Link header: <url>; rel="name", or text of another form.
LinkEntry(u, rel) == [form |-> "link", url |-> u, rel |-> rel]
JunkEntry == [form |-> "junk", url |-> Url("", <<>>), rel |-> ""]

TickersPath(ex) == BASE_URL \o "/exchanges/" \o ex.api_id \o "/tickers"

\* The next url a Link header names: a path of its own, a key given twice
\* and a key with a blank value.
NextUrl(ex) == Url(TickersPath(ex) \o "/more",
                   << <<"page", "3">>, <<"empty", "">>, <<"page", "4">> >>)
LastUrl(ex) == Url(TickersPath(ex), << <<"page", "9">> >>)

\* Link headers that name a next page.
LinkHeadersWithNext(ex) ==
    { << JunkEntry, LinkEntry(NextUrl(ex), "next"), LinkEntry(LastUrl(ex), "last") >> }

\* Link headers that name none.
LinkHeadersWithoutNext(ex) ==
    { << JunkEntry, LinkEntry(LastUrl(ex), "last") >> }

\* Response headers: with a Link header or without one.
NoHeaders == [hasLink |-> FALSE, Link |-> <<>>]
WithLink(h) == [hasLink |-> TRUE, Link |-> h]

---------------------------------------------------------------------------
(* safe_request *)

\* Bounds of the run: 429 answers in all, pages of one ticker listing.
MaxRetries     == 1
MaxTickerPages == 2
\* The run's clock: the gap before each wait() call and the lateness of its
\* timestamp.
RunGaps  == {1}
RunOvers == {0}

\* The (None, None) that line 52 returns, and the pair that line 42 returns.
Failed == [ok |-> FALSE, body |-> <<>>, headers |-> NoHeaders]
Success(body, headers) == [ok |-> TRUE, body |-> body, headers |-> headers]

\* The request a retry sends: line 47 passes url and params on as they are.
RetryRequest(r) == r

\* The history of a call that has sent nothing yet.
NoGets == [gets |-> 0, throttled |-> 0, failed |-> 0, reqs |-> {}, slept |-> 0,
           answer |-> <<>>]

\* The fetcher that called safe_request returns: its frame and what
\* safe_request gave it are gone.
RequestOver ==
    /\ rq' = "none"
    /\ req' = <<>>
    /\ resp' = <<>>
    /\ callLog' = NoGets
    /\ UNCHANGED <<depth, nGets, nThrottled, httpError>>

\* A fetcher calls safe_request(url, params): line 35.
\* log: the requests the running fetcher made before this one.
SafeRequestCall(u, p, log) ==
    /\ rq' = "wait"
    /\ depth' = 1
    /\ req' = [url |-> u, params |-> p]
    /\ callLog' = NoGets
    /\ fetchReqs' = Append(log, [url |-> u, params |-> p])
    /\ UNCHANGED <<resp, nGets, nThrottled, httpError>>

\* Line 37: rate_limiter.wait().
SafeRequestWait(gaps, overs) ==
    /\ rq = "wait"
    /\ \E d \in gaps, o \in overs : RateLimiterWait(d, o)
    /\ rq' = "get"
    /\ UNCHANGED <<depth, req, resp, callLog, nGets, nThrottled, httpError>>
    /\ UNCHANGED <<fetchVars, mainVars, parseVars, fetched>>

\* What a 2xx answer may hold, by the endpoint the running fetcher asks.
TickerHeaders ==
    LET ex == exchanges[exIdx]
    IN  {NoHeaders}
        \cup { WithLink(h) : h \in LinkHeadersWithoutNext(ex) }
        \cup (IF Len(fetchResps) + 1 < MaxTickerPages
              THEN { WithLink(h) : h \in LinkHeadersWithNext(ex) }
              ELSE {})

Answers ==
    CASE pc = "fetch_coins"   -> { Success(b, NoHeaders) : b \in CoinBodies }
      [] pc = "fetch_tickers" -> { Success(b, h) : b \in TickerBodies, h \in TickerHeaders }
      [] OTHER                -> { Success(b, NoHeaders) : b \in CategoryBodies }

\* The history after one more GET of the request of the moment.
Sent == [callLog EXCEPT !.gets = @ + 1, !.reqs = @ \cup {req}]

\* Line 47: every frame returns what the call it made returned.
Unwound(a, frames) == a

\* Lines 40-42: the GET is answered 2xx; the call returns body and headers.
GetSuccess ==
    /\ rq = "get"
    /\ \E a \in Answers :
        /\ resp' = Unwound(a, depth)
        /\ fetchResps' = Append(fetchResps, Unwound(a, depth))
        /\ callLog' = [Sent EXCEPT !.answer = a]
    /\ rq' = "ret"
    /\ depth' = 0
    /\ nGets' = nGets + 1
    /\ UNCHANGED <<req, nThrottled, httpError, fetchReqs>>
    /\ UNCHANGED <<coins, has_more_data, page, tickers, url, params>>
    /\ UNCHANGED <<limiterVars, mainVars, parseVars, fetched>>

\* Lines 43-47 with the GET sent again in the same frame, line 37 not run
\* again.
GetThrottledNoWait(cap, overs) ==
    /\ rq = "get"
    /\ nThrottled < cap
    /\ \E o \in overs : now' = now + BackoffSeconds + o
    /\ rq' = "get"
    /\ callLog' = [Sent EXCEPT !.throttled = @ + 1, !.slept = @ + BackoffSeconds]
    /\ nGets' = nGets + 1
    /\ nThrottled' = nThrottled + 1
    /\ UNCHANGED <<depth, req, resp, httpError>>
    /\ UNCHANGED <<requests, max_requests, period, recent, nWaits, lastSleep>>
    /\ UNCHANGED <<fetchVars, mainVars, parseVars, fetched>>

\* Lines 43-47: the GET is answered 429; sleep 10 s and call safe_request
\* again.  o: how late the sleep ends.
GetThrottled(cap, overs) ==
    /\ rq = "get"
    /\ nThrottled < cap
    /\ depth < RecursionLimit
    /\ \E o \in overs : now' = now + BackoffSeconds + o
    /\ rq' = "wait"
    /\ depth' = depth + 1
    /\ req' = RetryRequest(req)
    /\ callLog' = [Sent EXCEPT !.throttled = @ + 1, !.slept = @ + BackoffSeconds]
    /\ nGets' = nGets + 1
    /\ nThrottled' = nThrottled + 1
    /\ UNCHANGED <<resp, httpError>>
    /\ UNCHANGED <<requests, max_requests, period, recent, nWaits, lastSleep>>
    /\ UNCHANGED <<fetchVars, mainVars, parseVars, fetched>>

\* Lines 43-47, when the interpreter has no frame left for the call of
\* line 47: the RecursionError is no HTTPError and no RequestException, so
\* nothing catches it.
RecursionOverflow ==
    /\ rq = "get"
    /\ depth = RecursionLimit
    /\ \E o \in RunOvers : now' = now + BackoffSeconds + o
    /\ rq' = "none"
    /\ pc' = "crashed"
    /\ callLog' = [Sent EXCEPT !.throttled = @ + 1, !.slept = @ + BackoffSeconds]
    /\ nGets' = nGets + 1
    /\ nThrottled' = nThrottled + 1
    /\ UNCHANGED <<depth, req, resp, httpError>>
    /\ UNCHANGED <<requests, max_requests, period, recent, nWaits, lastSleep>>
    /\ UNCHANGED <<fetchVars, argVars, dataVars, outVars, parseVars, fetched>>

\* Lines 43-49 with the error status handled as lines 50-52 handle a
\* failure: the call returns (None, None) and the run goes on.
GetHttpErrorSwallowed ==
    /\ rq = "get"
    /\ resp' = Failed
    /\ fetchResps' = Append(fetchResps, Failed)
    /\ rq' = "ret"
    /\ depth' = 0
    /\ httpError' = TRUE
    /\ callLog' = Sent
    /\ nGets' = nGets + 1
    /\ UNCHANGED <<req, nThrottled, fetchReqs>>
    /\ UNCHANGED <<coins, has_more_data, page, tickers, url, params>>
    /\ UNCHANGED <<limiterVars, mainVars, parseVars, fetched>>

\* Lines 43-49: the GET is answered with another error status; the
\* HTTPError is raised again and nothing up to the module level catches it.
GetHttpError ==
    /\ rq = "get"
    /\ callLog' = Sent
    /\ rq' = "none"
    /\ depth' = 0
    /\ httpError' = TRUE
    /\ pc' = "crashed"
    /\ nGets' = nGets + 1
    /\ UNCHANGED <<req, resp, nThrottled>>
    /\ UNCHANGED <<limiterVars, fetchVars, argVars, dataVars, outVars, parseVars, fetched>>

\* Lines 50-52 with the failure handled as lines 44-47 handle a 429: the
\* request is sent again.
GetNetworkFailureRetried ==
    /\ rq = "get"
    /\ rq' = "wait"
    /\ callLog' = [Sent EXCEPT !.failed = @ + 1]
    /\ nGets' = nGets + 1
    /\ UNCHANGED <<depth, req, resp, nThrottled, httpError>>
    /\ UNCHANGED <<limiterVars, fetchVars, mainVars, parseVars, fetched>>

\* Lines 50-52: the GET fails without a response; the call returns
\* (None, None).
GetNetworkFailure ==
    /\ rq = "get"
    /\ resp' = Failed
    /\ fetchResps' = Append(fetchResps, Failed)
    /\ rq' = "ret"
    /\ depth' = 0
    /\ callLog' = [Sent EXCEPT !.failed = @ + 1]
    /\ nGets' = nGets + 1
    /\ UNCHANGED <<req, nThrottled, httpError, fetchReqs>>
    /\ UNCHANGED <<coins, has_more_data, page, tickers, url, params>>
    /\ UNCHANGED <<limiterVars, mainVars, parseVars, fetched>>

---------------------------------------------------------------------------
(* Python values *)

\* s[:n] for n >= 0.
Take(s, n) == SubSeq(s, 1, Min(n, Len(s)))

\* An OrderedDict (and a dict that is iterated): the items in insertion
\* order.  Setting a key that is present keeps its place.
ODKeys(od) == [i \in 1..Len(od) |-> od[i].key]
ODHas(od, k) == \E i \in 1..Len(od) : od[i].key = k
ODGet(od, k) == od[CHOOSE i \in 1..Len(od) : od[i].key = k].value
ODSet(od, k, v) ==
    IF ODHas(od, k)
    THEN [i \in 1..Len(od) |-> IF od[i].key = k THEN [key |-> k, value |-> v] ELSE od[i]]
    ELSE Append(od, [key |-> k, value |-> v])

\* params=None
NoParams == <<>>

---------------------------------------------------------------------------
(* fetch_categories *)

\* A call of a fetcher: which one, and the category id or exchange id it is
\* called with.
Fetch(kind, id) == [kind |-> kind, id |-> id]

CategoriesUrl == Url(BASE_URL \o "/coins/categories", << <<"order", "market_cap_desc">> >>)

\* Lines 59-65 without the slice of line 60.
FetchCategoriesResultWhole(r, limit) ==
    IF r.ok /\ r.body # <<>> THEN r.body ELSE <<>>

\* Lines 59-65: what fetch_categories returns for what safe_request returned.
FetchCategoriesResult(r, limit) ==
    IF r.ok /\ r.body # <<>> THEN Take(r.body, limit) ELSE <<>>

\* main() line 167 up to the request of line 58.
FetchCategoriesCall ==
    /\ pc = "start"
    /\ pc' = "fetch_categories"
    /\ SafeRequestCall(CategoriesUrl, NoParams, <<>>)
    /\ fetchResps' = <<>>
    /\ UNCHANGED <<coins, has_more_data, page, tickers, url, params>>
    /\ UNCHANGED <<limiterVars, argVars, dataVars, outVars, parseVars>>
    /\ fetched' = Append(fetched, Fetch("categories", ""))

\* Lines 58-65, and main() starts the generator of line 169.
FetchCategoriesReturn ==
    /\ pc = "fetch_categories" /\ rq = "ret"
    /\ categories' = FetchCategoriesResult(resp, category_limit)
    /\ category_coins' = <<>>
    /\ catIdx' = 1
    /\ pc' = "main169"
    /\ RequestOver
    /\ fetchReqs' = <<>> /\ fetchResps' = <<>>
    /\ UNCHANGED <<coins, has_more_data, page, tickers, url, params>>
    /\ UNCHANGED <<limiterVars, argVars, exIdx, outVars, parseVars, fetched>>

---------------------------------------------------------------------------
(* fetch_coins_by_category *)

MarketsUrl == Url(BASE_URL \o "/coins/markets", <<>>)

\* Lines 71-77, with the page number of the moment.
MarketsParams(category_id, pg) ==
    [vs_currency |-> "usd", category |-> category_id,
     order |-> "market_cap_desc", per_page |-> PerPage, page |-> pg]

\* Line 84.
NewCoins(body) == [i \in 1..Len(body) |-> body[i].id]

\* Line 85 without its slice: the whole page is appended.
ExtendedWhole(cs, new_coins, max_coins) == cs \o new_coins

\* Line 85.
Extended(cs, new_coins, max_coins) == cs \o Take(new_coins, max_coins - Len(cs))

\* Line 88: whether this page was the last one to ask for.
LastPage(cs, new_coins, max_coins) ==
    Len(cs) >= max_coins \/ Len(new_coins) < PerPage

\* Line 81.
CoinsLoopTest(more, cs, max_coins) == more /\ Len(cs) < max_coins

\* Line 91 without its increment: the same page is asked for again.
SamePage(pg) == pg

\* Line 91.
NextPage(pg) == pg + 1

\* main() line 169 calls fetch_coins_by_category for the next category:
\* lines 69-79.
FetchCoinsCall ==
    /\ pc = "main169" /\ catIdx <= Len(categories)
    /\ pc' = "fetch_coins"
    /\ coins' = <<>>
    /\ has_more_data' = TRUE
    /\ page' = 1
    /\ UNCHANGED <<fetchReqs, fetchResps, tickers, url, params>>
    /\ UNCHANGED <<limiterVars, requestVars, argVars, dataVars, outVars, parseVars>>
    /\ fetched' = Append(fetched, Fetch("coins", categories[catIdx].id))

\* Lines 81-82: the loop goes on and asks for the page.
CoinsRequest ==
    /\ pc = "fetch_coins" /\ rq = "none"
    /\ CoinsLoopTest(has_more_data, coins, coin_limit_per_category)
    /\ SafeRequestCall(MarketsUrl, MarketsParams(categories[catIdx].id, page), fetchReqs)
    /\ UNCHANGED <<fetchResps, coins, has_more_data, page, tickers, url, params>>
    /\ UNCHANGED <<limiterVars, mainVars, parseVars, fetched>>

\* Lines 83-94: the answer to the request of line 82.
CoinsResponse ==
    /\ pc = "fetch_coins" /\ rq = "ret"
    /\ rq' = "none"
    /\ IF resp.ok /\ resp.body # <<>>
       THEN LET new_coins == NewCoins(resp.body)
                extended  == Extended(coins, new_coins, coin_limit_per_category)
            IN  /\ coins' = extended
                /\ IF LastPage(extended, new_coins, coin_limit_per_category)
                   THEN has_more_data' = FALSE /\ page' = page
                   ELSE has_more_data' = TRUE /\ page' = NextPage(page)
       ELSE /\ has_more_data' = FALSE
            /\ UNCHANGED <<coins, page>>
    /\ UNCHANGED <<depth, req, resp, callLog, nGets, nThrottled, httpError>>
    /\ UNCHANGED <<fetchReqs, fetchResps, tickers, url, params>>
    /\ UNCHANGED <<limiterVars, mainVars, parseVars, fetched>>

\* Lines 96-97: the loop is over; main() line 169 stores the coins under
\* the category id and goes to the next category.
CoinsReturn ==
    /\ pc = "fetch_coins" /\ rq = "none"
    /\ ~CoinsLoopTest(has_more_data, coins, coin_limit_per_category)
    /\ category_coins' = ODSet(category_coins, categories[catIdx].id, coins)
    /\ catIdx' = catIdx + 1
    /\ pc' = "main169"
    /\ coins' = <<>> /\ has_more_data' = FALSE /\ page' = 0
    /\ RequestOver
    /\ fetchReqs' = <<>> /\ fetchResps' = <<>>
    /\ UNCHANGED <<categories, exIdx>>
    /\ UNCHANGED <<tickers, url, params>>
    /\ UNCHANGED <<limiterVars, argVars, outVars, parseVars, fetched>>

\* Line 177 reached whether or not line 169 is through the categories.
CoinsDoneEarly ==
    /\ pc = "main169"
    /\ pc' = "main177"
    /\ exIdx' = 1
    /\ UNCHANGED <<categories, category_coins, catIdx>>
    /\ UNCHANGED <<limiterVars, requestVars, fetchVars, argVars, outVars, parseVars, fetched>>

\* main() line 169 is through the categories; line 177 starts the loop
\* over the exchanges.
CoinsDone ==
    /\ pc = "main169" /\ catIdx > Len(categories)
    /\ pc' = "main177"
    /\ exIdx' = 1
    /\ UNCHANGED <<categories, category_coins, catIdx>>
    /\ UNCHANGED <<limiterVars, requestVars, fetchVars, argVars, outVars, parseVars, fetched>>

---------------------------------------------------------------------------
(* fetch_tickers_for_exchange *)

Largest(S) == CHOOSE i \in S : \A j \in S : j <= i

Smallest(S) == CHOOSE i \in S : \A j \in S : i <= j

\* dict(pairs) with the first value given to a key kept.
DictOfFirst(pairs) ==
    [k \in {pairs[i][1] : i \in 1..Len(pairs)} |->
        pairs[Smallest({i \in 1..Len(pairs) : pairs[i][1] = k})][2]]

\* dict(pairs): the last value given to a key is the one kept.
DictOf(pairs) ==
    [k \in {pairs[i][1] : i \in 1..Len(pairs)} |->
        pairs[Largest({i \in 1..Len(pairs) : pairs[i][1] = k})][2]]

\* parse_link_header, lines 120-128.  The header is the sequence of its
\* comma-separated entries; an entry the pattern does not match is skipped.
parse_link_header(link_header) ==
    LET matched == SelectSeq(link_header, LAMBDA e : e.form = "link")
    IN  DictOf([i \in 1..Len(matched) |-> <<matched[i].rel, matched[i].url>>])

\* The text of a header is the sequence of its tokens: the characters
\* < > ; , " and the blank, the literal rel= of the pattern, and words that
\* hold none of these.
Quote == "\""
Whitespace == {" "}

\* str.split(sep), line 123: the pieces between the separators; a text
\* without a separator, the empty text too, is one piece.
RECURSIVE Split(_, _)
Split(text, sep) ==
    IF \A i \in 1..Len(text) : text[i] # sep THEN <<text>>
    ELSE LET k == Smallest({i \in 1..Len(text) : text[i] = sep})
         IN  <<SubSeq(text, 1, k - 1)>> \o Split(SubSeq(text, k + 1, Len(text)), sep)

\* The token at a place of the text; past its end there is none.
At(e, i) == IF i \in 1..Len(e) THEN e[i] ELSE ""
\* The first place from i on that holds (does not hold) one of the tokens.
Find(e, i, tokens) == Smallest({j \in i..Len(e) : e[j] \in tokens} \cup {Len(e) + 1})
Skip(e, i, tokens) == Smallest({j \in i..Len(e) : e[j] \notin tokens} \cup {Len(e) + 1})

\* Line 122, the pattern <([^>]+)>;\s*rel="([^"]+)" tried at place i of an
\* entry: its two groups, or <<>> when it does not match there.
LinkPatternAt(e, i) ==
    LET gt    == Find(e, i + 1, {">"})
        relAt == Skip(e, gt + 2, Whitespace)
        quote == Find(e, relAt + 2, {Quote})
    IN  IF /\ At(e, i) = "<"
           /\ gt > i + 1 /\ At(e, gt) = ">"
           /\ At(e, gt + 1) = ";"
           /\ At(e, relAt) = "rel=" /\ At(e, relAt + 1) = Quote
           /\ quote > relAt + 2 /\ At(e, quote) = Quote
        THEN <<SubSeq(e, i + 1, gt - 1), SubSeq(e, relAt + 2, quote - 1)>>
        ELSE <<>>

\* Line 124, link_pattern.search(link): the match at the first place that
\* has one.
LinkPatternSearch(e) ==
    LET starts == {i \in 1..Len(e) : LinkPatternAt(e, i) # <<>>}
    IN  IF starts = {} THEN <<>> ELSE LinkPatternAt(e, Smallest(starts))

\* The string that a sequence of tokens spells.
RECURSIVE Spelled(_)
Spelled(ts) == IF ts = <<>> THEN "" ELSE ts[1] \o Spelled(Tail(ts))

\* parse_link_header, lines 120-128, on the text of the header.  (In a run
\* of main() the header is held cut into its entries already, form saying
\* whether the pattern matches the entry.)
ParseLinkHeaderText(link_header) ==
    LET pieces == Split(link_header, ",")
        tried  == [i \in 1..Len(pieces) |-> LinkPatternSearch(pieces[i])]
        found  == SelectSeq(tried, LAMBDA m : m # <<>>)
    IN  DictOf([i \in 1..Len(found) |-> <<Spelled(found[i][2]), Spelled(found[i][1])>>])

\* parse_qsl, line 133: the pairs of the query, those with a blank value
\* left out.
parse_qsl(query) == SelectSeq(query, LAMBDA kv : kv[2] # "")

\* update_request_url without line 134: the url keeps its query.
UrlWithQueryKept(next_url) ==
    [url    |-> next_url,
     params |-> DictOf(parse_qsl(next_url.query))]

\* update_request_url, lines 130-135.
update_request_url(next_url) ==
    [url    |-> Url(next_url.path, <<>>),
     params |-> DictOf(parse_qsl(next_url.query))]

\* Line 109 without its condition: every ticker of the page is kept.
RetainedAll(body, target) == body.tickers

\* Line 109: the tickers of the page that are kept.
Retained(body, target) == SelectSeq(body.tickers, LAMBDA t : t.target = target.symbol)

\* Line 110: headers.get('Link', '').
LinkOf(headers) == IF headers.hasLink THEN headers.Link ELSE <<>>

\* Lines 110-111: whether the loop goes on after this answer.
HasNext(r) == r.ok /\ "next" \in DOMAIN parse_link_header(LinkOf(r.headers))

\* main() line 178 calls fetch_tickers_for_exchange: lines 102-107.
FetchTickersCall ==
    /\ pc = "main177" /\ exIdx <= Len(exchanges)
    /\ pc' = "fetch_tickers"
    /\ LET u == Url(TickersPath(exchanges[exIdx]), <<>>)
           p == [coin_ids |-> target_coin.id, page |-> 1]
       IN  /\ url' = u
           /\ params' = p
           /\ SafeRequestCall(u, p, <<>>)
    /\ tickers' = <<>>
    /\ fetchResps' = <<>>
    /\ UNCHANGED <<coins, has_more_data, page>>
    /\ UNCHANGED <<limiterVars, argVars, dataVars, outVars, parseVars>>
    /\ fetched' = Append(fetched, Fetch("tickers", exchanges[exIdx].api_id))

\* Lines 108-112 and 107: the answer names a next page; ask for it.
TickersNextPage ==
    /\ pc = "fetch_tickers" /\ rq = "ret"
    /\ HasNext(resp)
    /\ tickers' = tickers \o Retained(resp.body, target_coin)
    /\ LET next == update_request_url(parse_link_header(LinkOf(resp.headers))["next"])
       IN  /\ url' = next.url
           /\ params' = next.params
           /\ SafeRequestCall(next.url, next.params, fetchReqs)
    /\ UNCHANGED <<fetchResps, coins, has_more_data, page>>
    /\ UNCHANGED <<limiterVars, mainVars, parseVars, fetched>>

\* Lines 108-118: the answer names no next page, or the request failed;
\* the loop breaks and the tickers go back to main().
TickersReturn ==
    /\ pc = "fetch_tickers" /\ rq = "ret"
    /\ ~HasNext(resp)
    /\ tickers' = IF resp.ok THEN tickers \o Retained(resp.body, target_coin) ELSE tickers
    /\ pc' = "main179"
    /\ url' = <<>> /\ params' = <<>>
    /\ RequestOver
    /\ fetchReqs' = <<>> /\ fetchResps' = <<>>
    /\ UNCHANGED <<coins, has_more_data, page>>
    /\ UNCHANGED <<limiterVars, argVars, dataVars, outVars, parseVars, fetched>>

---------------------------------------------------------------------------
(* Aggregation and output *)

\* Line 179, the value: "{EXCHANGE}:{BASE}{TARGET}".
FormatTicker(ex, t) == Upper(ex.name) \o ":" \o t.base \o t.target

\* Line 179 with the first ticker of a coin kept.
TickerDictFirst(ts, ex) ==
    DictOfFirst([i \in 1..Len(ts) |-> <<ts[i].coin_id, FormatTicker(ex, ts[i])>>])

\* Line 179: the dict comprehension over the ticker list.
TickerDict(ts, ex) ==
    DictOf([i \in 1..Len(ts) |-> <<ts[i].coin_id, FormatTicker(ex, ts[i])>>])

\* Line 181: every category name with an empty list.
RECURSIVE EmptyLists(_)
EmptyLists(cats) ==
    IF cats = <<>> THEN <<>>
    ELSE ODSet(EmptyLists(SubSeq(cats, 1, Len(cats) - 1)), cats[Len(cats)].name, <<>>)

\* Lines 183-185 with the coins taken from the last to the first.
TickersOfCoinsReversed(coin_ids, td) ==
    LET present == SelectSeq(coin_ids, LAMBDA c : c \in DOMAIN td)
    IN  [i \in 1..Len(present) |-> td[present[Len(present) + 1 - i]]]

\* Lines 183-185 for one category: the tickers of its coins that have one.
TickersOfCoins(coin_ids, td) ==
    LET present == SelectSeq(coin_ids, LAMBDA c : c \in DOMAIN td)
    IN  [i \in 1..Len(present) |-> td[present[i]]]

\* Lines 182-185: the categories in turn, each list appended to the one
\* under its name.
RECURSIVE Categorize(_, _, _, _)
Categorize(od, cats, cc, td) ==
    IF cats = <<>> THEN od
    ELSE LET cat == Head(cats)
             add == TickersOfCoins(ODGet(cc, cat.id), td)
         IN  Categorize(ODSet(od, cat.name, ODGet(od, cat.name) \o add),
                        Tail(cats), cc, td)

RECURSIVE Join(_, _)
Join(strs, sep) ==
    IF strs = <<>> THEN ""
    ELSE IF Len(strs) = 1 THEN strs[1]
    ELSE strs[1] \o sep \o Join(Tail(strs), sep)

\* Line 162 with the root taken of the count of all the tickers of the
\* category.
IndexStringRootOfAll(ts) ==
    "(" \o Join(Take(ts, IndexSize), "*") \o ")^(1/" \o ToString(Len(ts)) \o ")"

\* Line 162, for one category.
IndexString(ts) ==
    "(" \o Join(Take(ts, IndexSize), "*") \o ")^(1/" \o ToString(Len(Take(ts, IndexSize))) \o ")"

\* create_tradingview_index_string, lines 160-162.
create_tradingview_index_string(ct) ==
    [i \in 1..Len(ct) |-> [key |-> ct[i].key, value |-> IndexString(ct[i].value)]]

\* Lines 155-156: every ticker of the list and a newline after it.
TickerText(ts) == [i \in 1..(2 * Len(ts)) |-> IF i % 2 = 1 THEN ts[(i + 1) \div 2] ELSE "\n"]

\* save_to_tradingview_watchlist with line 153 writing one newline after
\* the index string.
WatchlistTextNoBlank(data, is_index) ==
    LET RECURSIVE Text(_)
        Text(d) ==
            IF d = <<>> THEN <<>>
            ELSE <<"###" \o d[1].key, "\n">>
                 \o (IF is_index THEN <<d[1].value, "\n">> ELSE TickerText(d[1].value))
                 \o Text(Tail(d))
    IN  Text(data)

\* save_to_tradingview_watchlist, lines 150-156: the text written, the
\* strings handed to file.write() with the newlines as tokens of their own.
RECURSIVE WatchlistText(_, _)
WatchlistText(data, is_index) ==
    IF data = <<>> THEN <<>>
    ELSE <<"###" \o data[1].key, "\n">>
         \o (IF is_index THEN <<data[1].value, "\n", "\n">> ELSE TickerText(data[1].value))
         \o WatchlistText(Tail(data), is_index)

\* Line 149: open(filename, 'w') and the writes.
Saved(fs, path, data, is_index) ==
    [f \in DOMAIN fs \cup {path} |->
        IF f = path THEN WatchlistText(data, is_index) ELSE fs[f]]

\* Line 196: the category name without the characters \ / : * ? < > |
\* (the other parts of the filename hold none of them).
Stripped(name) == CASE name = "AI"       -> "AI"
                    [] name = "Meme/Dog" -> "MemeDog"

CombinedPath(ex) == "Watchlists/" \o "Narratives - " \o ex.name \o " - Combined.txt"
CategoryPath(ex, cat) ==
    "Watchlists/" \o "Narratives - " \o ex.name \o " - " \o Stripped(cat) \o ".txt"
IndexPath(ex) == "Narratives - " \o ex.name \o " - Indicies.txt"

\* Lines 179-187.
Aggregate ==
    /\ pc = "main179"
    /\ LET td == TickerDict(tickers, exchanges[exIdx])
           ct == Categorize(EmptyLists(categories), categories, category_coins, td)
       IN  /\ ticker_dict' = td
           /\ categorized_tickers' = ct
           /\ tradingview_indexes' = create_tradingview_index_string(ct)
    /\ pc' = "main189"
    /\ UNCHANGED <<files, writes>>
    /\ UNCHANGED <<limiterVars, requestVars, fetchVars, argVars, dataVars, parseVars, fetched>>

\* Lines 194-198: one file for every key of categorized_tickers.
RECURSIVE SavedEach(_, _, _)
SavedEach(fs, ex, data) ==
    IF data = <<>> THEN fs
    ELSE SavedEach(Saved(fs, CategoryPath(ex, data[1].key), <<data[1]>>, FALSE),
                   ex, Tail(data))

\* Lines 189-198 with the flag of line 189 not looked at: one file for
\* every category in both modes.
WriteWatchlistsEach ==
    /\ pc = "main189"
    /\ LET ex == exchanges[exIdx]
       IN  /\ files' = SavedEach(files, ex, categorized_tickers)
           /\ writes' = writes \o
                 [i \in 1..Len(categorized_tickers) |->
                    CategoryPath(ex, categorized_tickers[i].key)]
    /\ pc' = "main200"
    /\ UNCHANGED <<ticker_dict, categorized_tickers, tradingview_indexes>>
    /\ UNCHANGED <<limiterVars, requestVars, fetchVars, argVars, dataVars, parseVars, fetched>>

\* Lines 189-198.
WriteWatchlists ==
    /\ pc = "main189"
    /\ LET ex == exchanges[exIdx]
       IN  IF combined_watchlist
           THEN /\ files' = Saved(files, CombinedPath(ex), categorized_tickers, FALSE)
                /\ writes' = Append(writes, CombinedPath(ex))
           ELSE /\ files' = SavedEach(files, ex, categorized_tickers)
                /\ writes' = writes \o
                     [i \in 1..Len(categorized_tickers) |->
                        CategoryPath(ex, categorized_tickers[i].key)]
    /\ pc' = "main200"
    /\ UNCHANGED <<ticker_dict, categorized_tickers, tradingview_indexes>>
    /\ UNCHANGED <<limiterVars, requestVars, fetchVars, argVars, dataVars, parseVars, fetched>>

\* Lines 200-201, and the loop of line 177 goes to the next exchange.
WriteIndex ==
    /\ pc = "main200"
    /\ LET ex == exchanges[exIdx]
       IN  /\ files' = Saved(files, IndexPath(ex), tradingview_indexes, TRUE)
           /\ writes' = Append(writes, IndexPath(ex))
    /\ exIdx' = exIdx + 1
    /\ pc' = "main177"
    /\ UNCHANGED <<categories, category_coins, catIdx>>
    /\ UNCHANGED <<ticker_dict, categorized_tickers, tradingview_indexes>>
    /\ UNCHANGED <<limiterVars, requestVars, fetchVars, argVars, parseVars, fetched>>

\* Line 203: the loop of line 177 is over.
Finish ==
    /\ pc = "main177" /\ exIdx > Len(exchanges)
    /\ pc' = "done"
    /\ UNCHANGED <<limiterVars, requestVars, fetchVars, argVars, dataVars, outVars, parseVars, fetched>>

---------------------------------------------------------------------------
(* Spec: a run of main() *)

\* No request in flight, no fetcher running, nothing fetched or written.
InitIdle ==
    /\ resp = <<>>
    /\ callLog = NoGets /\ nGets = 0 /\ nThrottled = 0 /\ httpError = FALSE
    /\ fetchReqs = <<>> /\ fetchResps = <<>>
    /\ coins = <<>> /\ has_more_data = FALSE /\ page = 0
    /\ tickers = <<>> /\ url = <<>> /\ params = <<>>
    /\ categories = <<>> /\ category_coins = <<>> /\ catIdx = 0 /\ exIdx = 0
    /\ ticker_dict = <<>> /\ categorized_tickers = <<>>
    /\ tradingview_indexes = <<>> /\ files = <<>> /\ writes = <<>>
    /\ link_entries = <<>> /\ link_text = <<>> /\ links = <<>>
    /\ fetched = <<>>

CategoryLimits == {1, 2}
CoinLimits     == {0, 2, PerPage + 1}

Init ==
    /\ requests = <<>> /\ now = 0 /\ recent = <<>> /\ nWaits = 0 /\ lastSleep = <<>>
    /\ max_requests = MainMaxRequests
    /\ period = MainPeriod
    /\ pc = "start"
    /\ rq = "none" /\ depth = 0 /\ req = <<>>
    /\ category_limit \in CategoryLimits
    /\ coin_limit_per_category \in CoinLimits
    /\ combined_watchlist \in BOOLEAN
    /\ InitIdle

Next ==
    \/ FetchCategoriesCall
    \/ FetchCategoriesReturn
    \/ FetchCoinsCall
    \/ CoinsRequest
    \/ CoinsResponse
    \/ CoinsReturn
    \/ CoinsDone
    \/ FetchTickersCall
    \/ TickersNextPage
    \/ TickersReturn
    \/ Aggregate
    \/ WriteWatchlists
    \/ WriteIndex
    \/ Finish
    \/ SafeRequestWait(RunGaps, RunOvers)
    \/ GetSuccess
    \/ GetThrottled(MaxRetries, RunOvers)
    \/ GetHttpError
    \/ GetNetworkFailure

Spec == Init /\ [][Next]_vars

---------------------------------------------------------------------------
(* SpecCoins: main() line 169 with one category to fetch the coins of *)

CoinLimitsTried == {0, 1, 2, PerPage, PerPage + 1, 2 * PerPage, 2 * PerPage + 1}

InitCoins ==
    /\ requests = <<>> /\ now = 0 /\ recent = <<>> /\ nWaits = 0 /\ lastSleep = <<>>
    /\ max_requests = MainMaxRequests
    /\ period = MainPeriod
    /\ pc = "main169"
    /\ rq = "none" /\ depth = 0 /\ req = <<>>
    /\ category_limit = 1
    /\ coin_limit_per_category \in CoinLimitsTried
    /\ combined_watchlist = FALSE
    /\ resp = <<>>
    /\ callLog = NoGets /\ nGets = 0 /\ nThrottled = 0 /\ httpError = FALSE
    /\ fetchReqs = <<>> /\ fetchResps = <<>>
    /\ coins = <<>> /\ has_more_data = FALSE /\ page = 0
    /\ tickers = <<>> /\ url = <<>> /\ params = <<>>
    /\ categories = <<CatAI>> /\ category_coins = <<>> /\ catIdx = 1 /\ exIdx = 0
    /\ ticker_dict = <<>> /\ categorized_tickers = <<>>
    /\ tradingview_indexes = <<>> /\ files = <<>> /\ writes = <<>>
    /\ link_entries = <<>> /\ link_text = <<>> /\ links = <<>>
    /\ fetched = <<>>

NextCoins ==
    \/ FetchCoinsCall
    \/ CoinsRequest
    \/ CoinsResponse
    \/ CoinsReturn
    \/ SafeRequestWait(RunGaps, RunOvers)
    \/ GetSuccess
    \/ GetThrottled(MaxRetries, RunOvers)
    \/ GetHttpError
    \/ GetNetworkFailure

\* Every step that can be taken is taken in the end: the interpreter runs
\* the one thread of main() on, each sleep ends, and each GET gets its answer
\* or its failure.
SpecCoins == InitCoins /\ [][NextCoins]_vars /\ WF_vars(NextCoins)

---------------------------------------------------------------------------
(* SpecCategories: main() line 167, fetch_categories with any limit *)

MaxLimitTried == 3
\* The clock of this run: wait() may be called at once or a second later,
\* and its timestamp may be a second late.
GapsTried == {0, 1}

InitCategories ==
    /\ requests = <<>> /\ now = 0 /\ recent = <<>> /\ nWaits = 0 /\ lastSleep = <<>>
    /\ max_requests = MainMaxRequests
    /\ period = MainPeriod
    /\ pc = "start"
    /\ rq = "none" /\ depth = 0 /\ req = <<>>
    /\ category_limit \in 0..MaxLimitTried
    /\ coin_limit_per_category = 0
    /\ combined_watchlist = FALSE
    /\ InitIdle

NextCategories ==
    \/ FetchCategoriesCall
    \/ FetchCategoriesReturn
    \/ SafeRequestWait(GapsTried, Overs)
    \/ GetSuccess
    \/ GetThrottled(MaxRetries, Overs)
    \/ GetHttpError
    \/ GetNetworkFailure

SpecCategories == InitCategories /\ [][NextCategories]_vars

---------------------------------------------------------------------------
(* SpecLink: parse_link_header called on a header text *)

MaxEntries == 3

\* An entry as it is written between the commas of a header, and what it
\* says: whether it is of the form <url>; rel="name", and then its name and
\* its url.
EntryText(text, ok, rel, u) == [text |-> text, ok |-> ok, rel |-> rel, url |-> u]
LinkEntryTexts ==
    { EntryText(<<"<", "u", ">", ";", " ", "rel=", Quote, "next", Quote>>, TRUE, "next", "u"),
      EntryText(<<"<", "v", ">", ";", "rel=", Quote, "next", Quote>>, TRUE, "next", "v"),
      EntryText(<<" ", "<", "u", ">", ";", " ", " ", "rel=", Quote, "last", Quote>>,
                TRUE, "last", "u"),
      EntryText(<<"<", "u", ";", "v", ">", ";", " ", "rel=", Quote, "last", Quote>>,
                TRUE, "last", "u;v"),
      EntryText(<<"u">>, FALSE, "", ""),
      EntryText(<<>>, FALSE, "", ""),
      EntryText(<<"<", "u", ">", ";", " ", "rel=", Quote, Quote>>, FALSE, "", ""),
      EntryText(<<"<", ">", ";", " ", "rel=", Quote, "next", Quote>>, FALSE, "", ""),
      EntryText(<<"<", "u", ">", " ", "rel=", Quote, "next", Quote>>, FALSE, "", ""),
      EntryText(<<"<", "u">>, FALSE, "", ""),
      EntryText(<<"v", ">", ";", " ", "rel=", Quote, "next", Quote>>, FALSE, "", "") }

\* The header text of a sequence of entries: a comma between them.
RECURSIVE HeaderText(_)
HeaderText(es) ==
    IF es = <<>> THEN <<>>
    ELSE IF Len(es) = 1 THEN es[1].text
    ELSE es[1].text \o <<",">> \o HeaderText(Tail(es))

InitLink ==
    /\ requests = <<>> /\ now = 0 /\ recent = <<>> /\ nWaits = 0 /\ lastSleep = <<>>
    /\ max_requests = MainMaxRequests
    /\ period = MainPeriod
    /\ pc = "parse_link_header"
    /\ rq = "none" /\ depth = 0 /\ req = <<>>
    /\ category_limit = 0 /\ coin_limit_per_category = 0
    /\ combined_watchlist = FALSE
    /\ resp = <<>>
    /\ callLog = NoGets /\ nGets = 0 /\ nThrottled = 0 /\ httpError = FALSE
    /\ fetchReqs = <<>> /\ fetchResps = <<>>
    /\ coins = <<>> /\ has_more_data = FALSE /\ page = 0
    /\ tickers = <<>> /\ url = <<>> /\ params = <<>>
    /\ categories = <<>> /\ category_coins = <<>> /\ catIdx = 0 /\ exIdx = 0
    /\ ticker_dict = <<>> /\ categorized_tickers = <<>>
    /\ tradingview_indexes = <<>> /\ files = <<>> /\ writes = <<>>
    /\ \E n \in 0..MaxEntries : link_entries \in [1..n -> LinkEntryTexts]
    /\ link_text = HeaderText(link_entries)
    /\ links = <<>>
    /\ fetched = <<>>

\* parse_link_header(link_header), lines 120-128.
ParseLinkHeaderCall ==
    /\ pc = "parse_link_header"
    /\ links' = ParseLinkHeaderText(link_text)
    /\ pc' = "parsed"
    /\ UNCHANGED <<link_entries, link_text>>
    /\ UNCHANGED <<limiterVars, requestVars, fetchVars, argVars, dataVars, outVars, fetched>>

NextLink == ParseLinkHeaderCall

SpecLink == InitLink /\ [][NextLink]_vars

---------------------------------------------------------------------------
(* SpecRetry: one call of safe_request that the server throttles *)

InitRetry ==
    /\ requests = <<>> /\ now = 0 /\ recent = <<>> /\ nWaits = 0 /\ lastSleep = <<>>
    /\ max_requests = MainMaxRequests
    /\ period = MainPeriod
    /\ pc = "safe_request"
    /\ rq = "wait" /\ depth = 1
    /\ req = [url |-> CategoriesUrl, params |-> NoParams]
    /\ category_limit = 0 /\ coin_limit_per_category = 0
    /\ combined_watchlist = FALSE
    /\ InitIdle

NextRetry ==
    \/ SafeRequestWait(RunGaps, RunOvers)
    \/ GetSuccess
    \/ GetThrottled(RecursionLimit, RunOvers)
    \/ RecursionOverflow

SpecRetry == InitRetry /\ [][NextRetry]_vars

---------------------------------------------------------------------------
(* SpecLimiter: a limiter of any size under any sequence of wait() calls *)

InitLimiter ==
    /\ requests = <<>> /\ now = 0 /\ recent = <<>> /\ nWaits = 0 /\ lastSleep = <<>>
    /\ max_requests \in 1..MaxRequestsTried
    /\ period \in 1..MaxPeriodTried
    /\ pc = "limiter"
    /\ rq = "none" /\ depth = 0 /\ req = <<>>
    /\ category_limit = 0 /\ coin_limit_per_category = 0
    /\ combined_watchlist = FALSE
    /\ InitIdle

WaitCall ==
    /\ pc = "limiter"
    /\ nWaits < MaxCalls
    /\ \E d \in 0..MaxGap, o \in Overs : RateLimiterWait(d, o)
    /\ UNCHANGED <<requestVars, fetchVars, mainVars, parseVars, fetched>>

NextLimiter == WaitCall

SpecLimiter == InitLimiter /\ [][NextLimiter]_vars

---------------------------------------------------------------------------
(* The claims *)

\* C1: when wait() has recorded a timestamp, at most max_requests recorded
\* timestamps (the new one among them) lie in the window of length period
\* that ends at it: no window of that length holds more than max_requests.
C1_WindowHoldsAtMostMax == Len(recent) <= max_requests

\* C2: however many 429 answers the call gets, safe_request goes on (nothing
\* ends the run), and when the 2xx answer comes it has sent one GET more than
\* it got 429 answers, all with the url and params of the call, has asked for
\* 10 s of backoff for each 429 and returns the 2xx answer.
C2_RetriesUntilSuccess ==
    /\ pc # "crashed"
    /\ rq = "ret" =>
        /\ callLog.gets = callLog.throttled + 1
        /\ callLog.reqs = {req}
        /\ callLog.slept = BackoffSeconds * callLog.throttled
        /\ resp = callLog.answer

\* The coin ids of the pages a fetcher was answered, in the order of the
\* answers; a failed request gives none.
RECURSIVE AnsweredIds(_)
AnsweredIds(rs) ==
    IF rs = <<>> THEN <<>>
    ELSE AnsweredIds(SubSeq(rs, 1, Len(rs) - 1))
         \o (IF rs[Len(rs)].ok
             THEN [i \in 1..Len(rs[Len(rs)].body) |-> rs[Len(rs)].body[i].id]
             ELSE <<>>)

IsPrefix(a, b) == Len(a) <= Len(b) /\ a = SubSeq(b, 1, Len(a))

\* The step by which fetch_coins_by_category returns to main().
CoinsReturned == pc = "fetch_coins" /\ pc' = "main169"

\* C3, while the fetcher runs: every page but the last one asked for was
\* answered with at least 250 items.
C3_NoPageAfterShortOne ==
    pc = "fetch_coins" =>
        \A i \in 1..(Len(fetchReqs) - 1) :
            fetchResps[i].ok /\ Len(fetchResps[i].body) >= PerPage

\* C3, at the return: the list returned has at most max_coins ids and is a
\* prefix of the pages fetched, put one after the other in page order.
C3_ReturnsPrefix ==
    CoinsReturned =>
        LET returned == ODGet(category_coins', categories[catIdx].id)
        IN  /\ Len(returned) <= coin_limit_per_category
            /\ IsPrefix(returned, AnsweredIds(fetchResps))

\* C3: fetch_coins_by_category returns at most max_coins coin ids, a prefix
\* of the concatenation of the fetched pages in page order, and asks for no
\* page after one that held fewer than 250 items.
C3_CoinsArePrefixOfPages == [][C3_NoPageAfterShortOne' /\ C3_ReturnsPrefix]_vars

\* C3, witness: a list of 251 ids has been returned for the first category,
\* the 250 of page 1 and the first of page 2.
C3_Witness ==
    /\ pc = "main169" /\ catIdx = 2
    /\ coin_limit_per_category = PerPage + 1
    /\ Len(category_coins[1].value) = PerPage + 1

\* The last request of the running fetcher came back as (None, None).
LastFailed == fetchResps # <<>> /\ ~fetchResps[Len(fetchResps)].ok

\* The tickers with the target USDT of the pages a fetcher was answered, in
\* the order of the answers.
RECURSIVE AnsweredTickers(_)
AnsweredTickers(rs) ==
    IF rs = <<>> THEN <<>>
    ELSE AnsweredTickers(SubSeq(rs, 1, Len(rs) - 1))
         \o (IF rs[Len(rs)].ok
             THEN SelectSeq(rs[Len(rs)].body.tickers, LAMBDA t : t.target = "USDT")
             ELSE <<>>)

\* C4, the call: the GET that failed was the last GET of its call, and the
\* call has returned (None, None).
C4_NoRetry ==
    callLog.failed > 0 =>
        /\ callLog.failed = 1
        /\ callLog.gets = callLog.throttled + 1
        /\ rq \in {"ret", "none"}
        /\ resp = [ok |-> FALSE, body |-> <<>>, headers |-> NoHeaders]

\* C4, the caller: after the failure the fetcher sends nothing, the run does
\* not end, and what the fetcher returns is what the earlier pages gave.
C4_ReturnsAccumulated ==
    LastFailed =>
        /\ nGets' = nGets
        /\ fetchReqs' \in {fetchReqs, <<>>}
        /\ pc' \in {pc, "main169", "main179"}
        /\ pc = "fetch_categories" /\ pc' = "main169" => categories' = <<>>
        /\ CoinsReturned =>
              ODGet(category_coins', categories[catIdx].id) = AnsweredIds(fetchResps)
        /\ pc = "fetch_tickers" /\ pc' = "main179" =>
              tickers' = AnsweredTickers(fetchResps)

\* C4: a GET that fails without a response is not sent again, safe_request
\* returns (None, None), and the fetcher sends no further request and returns
\* what it had: the coin ids so far, the tickers so far, no categories; the
\* run goes on.
C4_FailureStopsTheFetch == [][C4_NoRetry' /\ C4_ReturnsAccumulated]_vars

\* C4, witness: the request for the second page of tickers has failed, the
\* tickers of the first page are held.
C4_Witness ==
    /\ pc = "fetch_tickers" /\ rq = "ret"
    /\ LastFailed /\ Len(fetchResps) = 2
    /\ tickers # <<>>

\* C5: once a GET was answered with an error status other than 429 the run
\* is over; that GET was the last of its call, no GET follows and no file is
\* written or changed.
C5_HttpErrorEndsTheRun ==
    [][ /\ httpError' => pc' = "crashed" /\ callLog'.gets = callLog'.throttled + 1
        /\ httpError => UNCHANGED <<nGets, files, writes>> ]_vars

\* C5, witness: the error came while the second exchange was fetched; the
\* files of the first exchange are there.
C5_Witness ==
    /\ httpError /\ pc = "crashed"
    /\ exIdx = 2 /\ Len(writes) >= 2

\* Whether an answer holds a Link header with a well-formed "next" entry.
NamesNext(r) ==
    /\ r.ok /\ r.headers.hasLink
    /\ \E i \in 1..Len(r.headers.Link) :
          r.headers.Link[i].form = "link" /\ r.headers.Link[i].rel = "next"

\* The first request of fetch_tickers_for_exchange, and the request that
\* follows an answer whose next url is .../tickers/more?page=3&empty=&page=4.
FirstTickersRequest(ex) ==
    [url    |-> [path |-> BASE_URL \o "/exchanges/" \o ex.api_id \o "/tickers", query |-> <<>>],
     params |-> [coin_ids |-> "tether", page |-> 1]]
FurtherTickersRequest(ex) ==
    [url    |-> [path |-> BASE_URL \o "/exchanges/" \o ex.api_id \o "/tickers/more",
                 query |-> <<>>],
     params |-> [page |-> "4"]]

\* C6, the requests sent: every request after the first follows an answer
\* that names a next page and is made of that page's url.
C6_RequestsFollowNext ==
    pc = "fetch_tickers" =>
        /\ fetchReqs[1] = FirstTickersRequest(exchanges[exIdx])
        /\ \A i \in 2..Len(fetchReqs) :
              /\ NamesNext(fetchResps[i - 1])
              /\ fetchReqs[i] = FurtherTickersRequest(exchanges[exIdx])

\* C6, the step after an answer: a further request when the answer names a
\* next page; otherwise the return, with the tickers of all the pages.
C6_GoesOnOrReturns ==
    pc = "fetch_tickers" /\ rq = "ret" =>
        IF NamesNext(resp)
        THEN pc' = pc /\ Len(fetchReqs') = Len(fetchReqs) + 1
        ELSE pc' = "main179" /\ tickers' = AnsweredTickers(fetchResps)

\* C6: fetch_tickers_for_exchange sends a further request exactly when the
\* request before succeeded and its Link header names a next page, with the
\* next url without its query as url and the parsed query as params; at the
\* first answer without a next page, or the first failure, it returns the
\* tickers of the pages fetched, in page order.
C6_TickerPagination == [][C6_RequestsFollowNext' /\ C6_GoesOnOrReturns]_vars

\* C6, witness: the tickers of two pages have been returned.
C6_Witness == pc = "main179" /\ Len(tickers) = 6

\* main() holds the categorized tickers and the index strings of the
\* exchange of the moment.
Aggregated == pc \in {"main189", "main200"}

\* The tickers a coin list gives under a ticker dict: those of its first
\* half, then those of its second half; a single coin gives its ticker if
\* the dict has an entry for it.
RECURSIVE TickersInCoinOrder(_, _)
TickersInCoinOrder(cs, td) ==
    IF cs = <<>> THEN <<>>
    ELSE IF Len(cs) = 1 THEN (IF cs[1] \in DOMAIN td THEN <<td[cs[1]]>> ELSE <<>>)
    ELSE LET half == Len(cs) \div 2
         IN  TickersInCoinOrder(SubSeq(cs, 1, half), td)
             \o TickersInCoinOrder(SubSeq(cs, half + 1, Len(cs)), td)

\* C7: the categorized tickers of an exchange hold the categories in the
\* order of the API answer, and under each category the tickers of its
\* coins in the order of its coin list, a coin giving its ticker exactly
\* when the ticker dict of the exchange has an entry for it.
C7_CategoriesAndCoinsInOrder ==
    Aggregated =>
        /\ Len(categorized_tickers) = Len(categories)
        /\ \A i \in 1..Len(categories) :
              /\ categorized_tickers[i].key = categories[i].name
              /\ categorized_tickers[i].value =
                    TickersInCoinOrder(category_coins[i].value, ticker_dict)
              /\ category_coins[i].key = categories[i].id

\* C7, witness: two categories, and in one of them some coins with a ticker
\* and some without.
C7_Witness ==
    /\ Aggregated /\ Len(categorized_tickers) = 2
    /\ \E i \in 1..2 :
          /\ categorized_tickers[i].value # <<>>
          /\ Len(categorized_tickers[i].value) < Len(category_coins[i].value)

\* t1*...*tn for the first n tickers of ts.
RECURSIVE Product(_, _)
Product(ts, n) ==
    IF n = 0 THEN ""
    ELSE IF n = 1 THEN ts[1]
    ELSE Product(ts, n - 1) \o "*" \o ts[n]

\* (t1*...*tN)^(1/N) with N = min(n, 10).
RootOfProduct(ts) ==
    LET N == IF Len(ts) < 10 THEN Len(ts) ELSE 10
    IN  "(" \o Product(ts, N) \o ")^(1/" \o ToString(N) \o ")"

\* C8: the index strings have one entry for every category of the
\* categorized tickers, in the same order, and the entry of a category with
\* tickers t1..tn is (t1*...*tN)^(1/N), N = min(n, 10), made of the first N
\* tickers in their order; with no ticker it is ()^(1/0).
C8_IndexOfFirstTen ==
    Aggregated =>
        /\ Len(tradingview_indexes) = Len(categorized_tickers)
        /\ \A i \in 1..Len(categorized_tickers) :
              /\ tradingview_indexes[i].key = categorized_tickers[i].key
              /\ tradingview_indexes[i].value = RootOfProduct(categorized_tickers[i].value)
              /\ categorized_tickers[i].value = <<>> =>
                    tradingview_indexes[i].value = "()^(1/0)"

\* C8, witness: one category with more than ten tickers and one with none.
C8_Witness ==
    /\ Aggregated /\ Len(categorized_tickers) = 2
    /\ \E i, j \in 1..2 :
          /\ Len(categorized_tickers[i].value) > 10
          /\ categorized_tickers[j].value = <<>>

\* C9: the GETs issued are as many as the timestamps wait() recorded, or one
\* fewer: every GET, a retry too, comes after a wait() of its own.
C9_EveryGetAfterItsWait == nGets <= nWaits /\ nWaits <= nGets + 1

\* C9, witness: a retry after a 429 has been sent, in the third fetcher.
C9_Witness == pc = "fetch_tickers" /\ callLog.throttled = 1 /\ callLog.gets = 2

\* ceil(m / 250) for m >= 0.
PagesFor(m) == (m + PerPage - 1) \div PerPage

\* C10, the requests sent: the i-th request of the fetcher asks for page i,
\* and there are at most ceil(max_coins / 250) of them.
C10_PagesInOrder ==
    pc = "fetch_coins" =>
        /\ \A i \in 1..Len(fetchReqs) : fetchReqs[i].params.page = i
        /\ Len(fetchReqs) <= PagesFor(coin_limit_per_category)

\* C10: fetch_coins_by_category comes to an end; it asks for the pages 1,
\* 2, 3, ... in order, each once at most, for ceil(max_coins / 250) pages at
\* most, and for none when max_coins is 0.
C10_CoinFetchEnds ==
    /\ [](C10_PagesInOrder)
    /\ (pc = "fetch_coins") ~> (pc # "fetch_coins")

\* C10, witness: the loop is over after the second page was answered.
C10_Witness ==
    /\ pc = "fetch_coins" /\ rq = "none"
    /\ Len(fetchReqs) = 2 /\ Len(fetchResps) = 2
    /\ ~has_more_data

\* The places of the header's entries that are of the form <url>; rel="name".
WellFormedEntries == {i \in 1..Len(link_entries) : link_entries[i].ok}

\* C11: the dict that parse_link_header returns has a key for the name of
\* every well-formed entry of the header and no other key, and gives each
\* name the url of the last well-formed entry with that name; entries of
\* another form change nothing, and the empty header gives the empty dict.
C11_LinksOfWellFormedEntries ==
    pc = "parsed" =>
        /\ DOMAIN links = {link_entries[i].rel : i \in WellFormedEntries}
        /\ \A i \in WellFormedEntries :
              (\A j \in WellFormedEntries : j > i => link_entries[j].rel # link_entries[i].rel)
                  => links[link_entries[i].rel] = link_entries[i].url
        /\ link_text = <<>> => DOMAIN links = {}

\* C11, witness: two well-formed entries with the same name and different
\* urls, an entry of another form between them; the later url is kept.
C11_Witness ==
    /\ pc = "parsed" /\ Len(link_entries) = 3
    /\ link_entries[1].ok /\ ~link_entries[2].ok /\ link_entries[3].ok
    /\ link_entries[1].rel = link_entries[3].rel
    /\ link_entries[1].url # link_entries[3].url
    /\ links[link_entries[3].rel] = link_entries[3].url

\* Reading a text line by line: the lines that its newlines end, and the
\* rest after the last newline if there is one.
ReadLines(text) ==
    LET places == [i \in 1..Len(text) |-> i]
        ends   == SelectSeq(places, LAMBDA i : text[i] = "\n")
        start(k) == IF k = 1 THEN 1 ELSE ends[k - 1] + 1
        whole  == [k \in 1..Len(ends) |-> Spelled(SubSeq(text, start(k), ends[k] - 1))]
        rest   == SubSeq(text, start(Len(ends) + 1), Len(text))
    IN  whole \o (IF rest = <<>> THEN <<>> ELSE <<Spelled(rest)>>)

\* The lines the claim names for categorized data: for every category in
\* order the line ###name, then its tickers, or its index string and a
\* blank line.
RECURSIVE NamedLines(_, _)
NamedLines(data, is_index) ==
    IF data = <<>> THEN <<>>
    ELSE NamedLines(SubSeq(data, 1, Len(data) - 1), is_index)
         \o <<"###" \o data[Len(data)].key>>
         \o (IF is_index THEN <<data[Len(data)].value, "">> ELSE data[Len(data)].value)

\* C12: whenever main() has saved data to a file, reading the file back
\* line by line gives, for every category of the data in order, the line
\* ###name and then the tickers of the category in their order (ticker
\* mode) or its index string and one blank line (index mode).
C12_ReadBackGivesTheLines ==
    [][ /\ pc = "main189" /\ pc' = "main200" =>
            LET ex == exchanges[exIdx]
            IN  IF combined_watchlist
                THEN ReadLines(files'[CombinedPath(ex)]) = NamedLines(categorized_tickers, FALSE)
                ELSE \A i \in 1..Len(categorized_tickers) :
                        ReadLines(files'[CategoryPath(ex, categorized_tickers[i].key)])
                            = NamedLines(<<categorized_tickers[i]>>, FALSE)
        /\ pc = "main200" /\ pc' = "main177" =>
            ReadLines(files'[IndexPath(exchanges[exIdx])]) = NamedLines(tradingview_indexes, TRUE)
      ]_vars

\* C12, witness: the three kinds of file are there for an exchange, the
\* combined file with two categories, one with tickers and one without.
C12_Witness ==
    /\ pc = "main177" /\ exIdx = 2 /\ combined_watchlist
    /\ IndexPath(exchanges[1]) \in DOMAIN files
    /\ CombinedPath(exchanges[1]) \in DOMAIN files
    /\ Len(categorized_tickers) = 2
    /\ categorized_tickers[1].value = <<>> /\ categorized_tickers[2].value # <<>>

\* Whether a sequence is the first n entries of another, all of them when
\* it has fewer than n.
IsFirst(part, n, whole) ==
    /\ Len(part) = (IF Len(whole) < n THEN Len(whole) ELSE n)
    /\ \A i \in 1..Len(part) : part[i] = whole[i]

\* C13: fetch_categories hands one request to safe_request, for the
\* categories endpoint, and returns the first limit entries of the answer
\* in the order of the answer, all of them when there are fewer; when the
\* request fails it returns the empty list.
C13_FirstLimitCategories ==
    [][ /\ pc' = "fetch_categories" =>
            fetchReqs' = << [url    |-> [path  |-> BASE_URL \o "/coins/categories",
                                         query |-> << <<"order", "market_cap_desc">> >>],
                             params |-> <<>>] >>
        /\ pc = "fetch_categories" /\ pc' = "main169" =>
            /\ Len(fetchResps) = 1
            /\ IF fetchResps[1].ok
               THEN IsFirst(categories', category_limit, fetchResps[1].body)
               ELSE categories' = <<>>
      ]_vars

\* C13, witness: of the two categories of the answer the first one alone
\* has been returned.
C13_Witness ==
    /\ pc = "main169" /\ category_limit = 1
    /\ categories = <<CatMeme>>

\* The watchlist symbols that the tickers with a target other than USDT
\* would give, for the pages the server may answer.
OtherTargetSymbols ==
    UNION { { Upper(exchanges[e].name) \o ":" \o b.tickers[i].base \o b.tickers[i].target :
                i \in { k \in 1..Len(b.tickers) : b.tickers[k].target # "USDT" } } :
            e \in 1..Len(exchanges), b \in TickerBodies }

\* C14, downstream: no ticker with another target is in the ticker list,
\* no symbol of one in the ticker dict, in a category's list or in the text
\* of a file.
C14_NoOtherTarget ==
    /\ \A i \in 1..Len(tickers) : tickers[i].target = "USDT"
    /\ \A c \in DOMAIN ticker_dict : ticker_dict[c] \notin OtherTargetSymbols
    /\ \A i \in 1..Len(categorized_tickers) :
          \A k \in 1..Len(categorized_tickers[i].value) :
              categorized_tickers[i].value[k] \notin OtherTargetSymbols
    /\ \A f \in DOMAIN files :
          \A k \in 1..Len(files[f]) : files[f][k] \notin OtherTargetSymbols

\* C14: the list fetch_tickers_for_exchange returns holds the tickers with
\* target USDT of the pages it fetched, all of them and in the order of the
\* answers, and nothing else; a ticker with another target reaches neither
\* the ticker dict nor a file.
C14_OnlyUsdtTickers ==
    [][ /\ pc = "fetch_tickers" /\ pc' = "main179" =>
            /\ Len(tickers') = Len(AnsweredTickers(fetchResps))
            /\ \A i \in 1..Len(tickers') : tickers'[i] = AnsweredTickers(fetchResps)[i]
        /\ <<tickers, outVars>>' # <<tickers, outVars>> => C14_NoOtherTarget'
      ]_vars

\* C14, witness: the files of an exchange are written from pages that held
\* a ticker with the target USD; the ticker dict has the two coins with a
\* USDT ticker.
C14_Witness ==
    /\ pc = "main200" /\ writes # <<>>
    /\ DOMAIN ticker_dict = {"bitcoin", "ethereum"}

\* The exchanges in the order the claim gives.
BinanceThenBybit == << [api_id |-> "binance", name |-> "Binance"],
                       [api_id |-> "bybit_spot", name |-> "Bybit"] >>

\* The watchlist files of the e-th exchange in the order of their writing:
\* the Combined file, or a file for every category in category order.
WatchlistWrites(e) ==
    IF combined_watchlist
    THEN <<CombinedPath(BinanceThenBybit[e])>>
    ELSE [i \in 1..Len(categories) |-> CategoryPath(BinanceThenBybit[e], categories[i].name)]

\* All the writes of the first n exchanges: for each its watchlist files and
\* then its index file.
RECURSIVE WritesOfFirst(_)
WritesOfFirst(n) ==
    IF n <= 0 THEN <<>>
    ELSE WritesOfFirst(n - 1) \o WatchlistWrites(n) \o <<IndexPath(BinanceThenBybit[n])>>

\* C15, the writes so far: those of the exchanges that are done and, when
\* main() is about to write the index file of an exchange, the watchlist
\* files of that exchange; every write made a file of its own.  While an
\* exchange is fetched (pc = "fetch_tickers") the index file of the exchange
\* before is written.
C15_WritesSoFar ==
    /\ writes = WritesOfFirst(exIdx - 1)
                  \o (IF pc = "main200" THEN WatchlistWrites(exIdx) ELSE <<>>)
    /\ DOMAIN files = {writes[i] : i \in 1..Len(writes)}
    /\ Cardinality(DOMAIN files) = Len(writes)

\* C15, what the watchlist files hold: the Combined file every category in
\* order, the file of a category that category alone.
C15_WatchlistsHold ==
    pc = "main189" /\ pc' = "main200" =>
        IF combined_watchlist
        THEN files'[CombinedPath(BinanceThenBybit[exIdx])]
                = WatchlistText(categorized_tickers, FALSE)
        ELSE \A i \in 1..Len(categories) :
                files'[CategoryPath(BinanceThenBybit[exIdx], categories[i].name)]
                    = WatchlistText(<<categorized_tickers[i]>>, FALSE)

\* C15: for Binance and then for Bybit main() writes the watchlist files
\* (one Combined file with every category in order, or one file for every
\* category in category order with that category alone) and then one index
\* file, before any request for the next exchange.
C15_WatchlistsThenIndex == [][C15_WritesSoFar' /\ C15_WatchlistsHold]_vars

\* C15, witness: the run is over with a file for each of two categories and
\* an index file, for both exchanges.
C15_Witness ==
    /\ pc = "done" /\ ~combined_watchlist
    /\ Len(categories) = 2 /\ Len(writes) = 6

\* EXCHANGE:BASETARGET for a ticker of the e-th exchange.
SymbolOf(e, t) == (IF e = 1 THEN "BINANCE" ELSE "BYBIT") \o ":" \o t.base \o t.target

\* C16: the ticker dict of an exchange has an entry for exactly the coin
\* ids of the ticker list, one for each, and the entry of a coin is
\* EXCHANGE:BASETARGET of the last ticker of that coin in the list.
C16_LastTickerOfACoin ==
    Aggregated =>
        /\ DOMAIN ticker_dict = {tickers[i].coin_id : i \in 1..Len(tickers)}
        /\ \A i \in 1..Len(tickers) :
              (\A j \in (i + 1)..Len(tickers) : tickers[j].coin_id # tickers[i].coin_id)
                  => ticker_dict[tickers[i].coin_id] = SymbolOf(exIdx, tickers[i])

\* C16, witness: the list of the second exchange holds bitcoin with the
\* bases BTC and WBTC, WBTC last; the dict has the symbol of WBTC.
C16_Witness ==
    /\ Aggregated /\ exIdx = 2
    /\ \E i, j \in 1..Len(tickers) :
          /\ i < j /\ tickers[i].coin_id = "bitcoin" /\ tickers[j].coin_id = "bitcoin"
          /\ tickers[i].base = "BTC" /\ tickers[j].base = "WBTC"
    /\ "bitcoin" \in DOMAIN ticker_dict
    /\ ticker_dict["bitcoin"] = "BYBIT:WBTCUSDT"

\* The calls of the fetchers that a run with these categories makes when
\* nothing ends it: the category list, the coins of every category in
\* category order, the tickers of Binance and of Bybit.
PlannedFetches(cats) ==
    << [kind |-> "categories", id |-> ""] >>
    \o [i \in 1..Len(cats) |-> [kind |-> "coins", id |-> cats[i].id]]
    \o << [kind |-> "tickers", id |-> "binance"], [kind |-> "tickers", id |-> "bybit_spot"] >>

\* main() is at the loop over the exchanges, or past it.
AtExchanges == exIdx >= 1

\* C17, the fetches so far: nothing but the category list until it is
\* there, and from then on the beginning of the planned sequence, so that
\* nothing is fetched twice and no tickers before the coins of the last
\* category.
C17_FetchesSoFar ==
    /\ pc = "start" => fetched = <<>>
    /\ pc = "fetch_categories" => fetched = << [kind |-> "categories", id |-> ""] >>
    /\ pc \notin {"start", "fetch_categories", "crashed"} =>
          IsPrefix(fetched, PlannedFetches(categories))
    /\ AtExchanges =>
          /\ Len(fetched) >= 1 + Len(categories)
          /\ Len(category_coins) = Len(categories)
          /\ \A i \in 1..Len(categories) : category_coins[i].key = categories[i].id

\* C17: the category list is fetched once, then the coins of every category
\* once each in category order, and only then the tickers of the first
\* exchange; while the exchanges are processed the category list and the
\* coins of the categories stay as they are.
C17_FetchedOnceThenKept ==
    [][ /\ C17_FetchesSoFar'
        /\ AtExchanges => UNCHANGED <<categories, category_coins>> ]_vars

\* C17, witness: the run is over after the category list, the coins of two
\* categories and the tickers of two exchanges were fetched.
C17_Witness ==
    /\ pc = "done" /\ Len(categories) = 2
    /\ fetched = PlannedFetches(categories)

\* The timestamps of a queue never go down from left to right.
NonDecreasing(q) == \A i \in 1..Len(q), j \in 1..Len(q) : i < j => q[i] <= q[j]

\* C18: a wait() call sleeps at most once, for a time from 0 to period, both
\* included, whatever calls came before; and after every call the timestamps
\* recorded in the queue are in non-decreasing order.
C18_OneBoundedSleepSortedQueue ==
    /\ Len(lastSleep) <= 1
    /\ \A i \in 1..Len(lastSleep) : lastSleep[i] >= 0 /\ lastSleep[i] <= period
    /\ NonDecreasing(requests)

\* C18, witness: a call that found the queue full slept the whole period and
\* left a queue of several timestamps.
C18_Witness ==
    /\ pc = "limiter" /\ nWaits >= 2
    /\ lastSleep = <<period>>
    /\ Len(requests) >= 2

=============================================================================
